---- MODULE Spec2Model ----
(***************************************************************************)
(* Model of src/app.ts: the hardened startup script.                       *)
(*                                                                         *)
(* One action is one turn of the Node.js event loop: a callback delivered  *)
(* by the runtime (module evaluation, settlement of an awaited external    *)
(* operation, timer expiry, signal, fault event) together with every       *)
(* promise continuation (microtask) it triggers, which the runtime runs    *)
(* to completion before the next callback is delivered.                    *)
(***************************************************************************)
EXTENDS Integers, Sequences, FiniteSets, TLC

\* ---------------------------------------------------------------- bounds
MaxCount   == 2   \* largest count reported for one severity
MaxSignals == 3   \* termination signals delivered in one run
MaxFaults  == 2   \* unhandledRejection / uncaughtException events in one run
MaxTimeoutLen == 2  \* characters in the text of STARTUP_TIMEOUT_MS

\* ------------------------------------------------------------ environment
Unset == "<unset>"

EnforceAuditValues == {Unset, "true", "false", "1"}
CrashFlagValues    == {Unset, "true", "false"}
DebugValues        == {Unset, "true"}

\* STARTUP_TIMEOUT_MS: unset, or a text made of these characters
TimeoutChars == {"0", "5", "-", "x"}

TimeoutTexts == UNION {[1..n -> TimeoutChars] : n \in 0..MaxTimeoutLen}

TimeoutUnset == [set |-> FALSE, chars |-> <<>>]

TimeoutValues ==
  {TimeoutUnset} \cup {[set |-> TRUE, chars |-> c] : c \in TimeoutTexts}

Envs ==
  [ENFORCE_AUDIT                : EnforceAuditValues,
   CRASH_ON_UNHANDLED_REJECTION : CrashFlagValues,
   CRASH_ON_UNCAUGHT_EXCEPTION  : CrashFlagValues,
   DEBUG                        : DebugValues,
   STARTUP_TIMEOUT_MS           : TimeoutValues]

\* the runs of Spec leave STARTUP_TIMEOUT_MS unset
DefaultTimeoutEnvs == {e \in Envs : e.STARTUP_TIMEOUT_MS = TimeoutUnset}

\* the runs of TimeoutSpec range over STARTUP_TIMEOUT_MS, nothing else set
TimeoutEnvs ==
  {e \in Envs : /\ e.ENFORCE_AUDIT = Unset
                /\ e.CRASH_ON_UNHANDLED_REJECTION = Unset
                /\ e.CRASH_ON_UNCAUGHT_EXCEPTION = Unset
                /\ e.DEBUG = Unset}

DigitValue(c) == IF c = "5" THEN 5 ELSE 0

IsDigit(c) == c \in {"0", "5"}

\* the value of a run of decimal digits
RECURSIVE DigitsValue(_)
DigitsValue(ds) ==
  IF ds = <<>> THEN 0
  ELSE 10 * DigitsValue(SubSeq(ds, 1, Len(ds) - 1)) + DigitValue(ds[Len(ds)])

AllDigits(ds) == \A i \in 1..Len(ds) : IsDigit(ds[i])

\* Number(process.env.STARTUP_TIMEOUT_MS), line 96: NaN for undefined, 0 for
\* the empty text, the value of an optionally signed run of digits, NaN for
\* any other text
NumberOf(v) ==
  IF ~v.set THEN [nan |-> TRUE, value |-> 0]
  ELSE IF v.chars = <<>> THEN [nan |-> FALSE, value |-> 0]
  ELSE IF v.chars[1] = "-"
    THEN LET ds == Tail(v.chars) IN
         IF ds # <<>> /\ AllDigits(ds)
           THEN [nan |-> FALSE, value |-> 0 - DigitsValue(ds)]
           ELSE [nan |-> TRUE, value |-> 0]
    ELSE IF AllDigits(v.chars)
           THEN [nan |-> FALSE, value |-> DigitsValue(v.chars)]
           ELSE [nan |-> TRUE, value |-> 0]

DefaultTimeoutMs == 30000

\* Number(process.env.STARTUP_TIMEOUT_MS) || 30000, line 96: NaN and 0 are
\* falsy
StartupTimeout(v) ==
  LET n == NumberOf(v) IN
  IF n.nan \/ n.value = 0 THEN DefaultTimeoutMs ELSE n.value

Signals == {"SIGINT", "SIGTERM"}

\* ------------------------------------------------- result of `npm audit`
Severities == {"low", "high"}

\* metadata.vulnerabilities objects: some severities, each with a count
VulnMaps == UNION {[S -> 0..MaxCount] : S \in SUBSET Severities}

NoCounts == [s \in {} |-> 0]

\* The values JSON.parse can return, as far as lines 40-41 look into them:
\* top is the kind of the parsed value, meta the kind of its .metadata,
\* vulns the kind of .metadata.vulnerabilities, counts that object.
AuditDocs ==
  {[top |-> "null",   meta |-> "absent", vulns |-> "absent", counts |-> NoCounts],
   [top |-> "scalar", meta |-> "absent", vulns |-> "absent", counts |-> NoCounts],
   [top |-> "object", meta |-> "absent", vulns |-> "absent", counts |-> NoCounts],
   [top |-> "object", meta |-> "null",   vulns |-> "absent", counts |-> NoCounts],
   [top |-> "object", meta |-> "object", vulns |-> "absent", counts |-> NoCounts],
   [top |-> "object", meta |-> "object", vulns |-> "null",   counts |-> NoCounts]}
  \cup
  {[top |-> "object", meta |-> "object", vulns |-> "object", counts |-> c] :
     c \in VulnMaps}

NoDoc == [top |-> "none", meta |-> "absent", vulns |-> "absent", counts |-> NoCounts]

\* res.stdout: nothing (null or ''), text that is not JSON, or the text of a
\* JSON document
Stdouts ==
  {[kind |-> "empty", doc |-> NoDoc], [kind |-> "garbage", doc |-> NoDoc]}
  \cup {[kind |-> "json", doc |-> d] : d \in AuditDocs}

\* what spawnSync returns: res.error set or not, and res.stdout
ToolResults == [error : BOOLEAN, stdout : Stdouts]

NoRes == [error |-> FALSE, stdout |-> [kind |-> "notrun", doc |-> NoDoc]]

\* JSON.parse(res.stdout): a SyntaxError for text that is not JSON
JSONParse(stdout) ==
  IF stdout.kind = "json"
    THEN [threw |-> FALSE, value |-> stdout.doc]
    ELSE [threw |-> TRUE,  value |-> NoDoc]

RECURSIVE SumOver(_, _)
SumOver(f, S) ==
  IF S = {} THEN 0
  ELSE LET s == CHOOSE x \in S : TRUE IN f[s] + SumOver(f, S \ {s})

\* Object.values(v).reduce((a, b) => a + b, 0)
SumValues(counts) == SumOver(counts, DOMAIN counts)

\* variant: the number of severities is taken for the number of vulnerabilities
TotalVulnsKeys(audit) ==
  IF audit.top = "null" THEN [threw |-> TRUE, value |-> 0]
  ELSE IF audit.top = "object" /\ audit.meta = "object" /\ audit.vulns = "object"
    THEN [threw |-> FALSE, value |-> Cardinality(DOMAIN audit.counts)]
    ELSE [threw |-> FALSE, value |-> 0]

\* line 41; reading .metadata of null is a TypeError
TotalVulns(audit) ==
  IF audit.top = "null" THEN [threw |-> TRUE, value |-> 0]
  ELSE IF audit.top = "object" /\ audit.meta = "object" /\ audit.vulns = "object"
    THEN [threw |-> FALSE, value |-> SumValues(audit.counts)]
    ELSE [threw |-> FALSE, value |-> 0]

AuditReturn(ok, message, invoked) ==
  [ok |-> ok, message |-> message, invoked |-> invoked, threw |-> FALSE]

AuditThrow(invoked) ==
  [ok |-> FALSE, message |-> "", invoked |-> invoked, threw |-> TRUE]

\* variant: line 22 tests the variable for truthiness, so 'false' enables
\* the audit
AuditTryBodyTruthy(enforce, res) ==
  IF enforce = Unset THEN AuditReturn(TRUE, "audit skipped", FALSE)
  ELSE IF res.error THEN AuditReturn(FALSE, "Failed to execute npm audit", TRUE)
  ELSE IF res.stdout.kind = "empty" THEN AuditReturn(TRUE, "no audit output", TRUE)
  ELSE LET parsed == JSONParse(res.stdout) IN
    IF parsed.threw THEN AuditThrow(TRUE)
    ELSE LET total == TotalVulns(parsed.value) IN
      IF total.threw THEN AuditThrow(TRUE)
      ELSE IF total.value > 0
        THEN AuditReturn(FALSE,
               "npm audit found " \o ToString(total.value) \o " vulnerabilities",
               TRUE)
        ELSE AuditReturn(TRUE, "npm audit passed", TRUE)

\* lines 22-47, the body of the try block: what it returns, or that it threw
AuditTryBody(enforce, res) ==
  IF enforce # "true" THEN AuditReturn(TRUE, "audit skipped", FALSE)
  ELSE IF res.error THEN AuditReturn(FALSE, "Failed to execute npm audit", TRUE)
  ELSE IF res.stdout.kind = "empty" THEN AuditReturn(TRUE, "no audit output", TRUE)
  ELSE LET parsed == JSONParse(res.stdout) IN
    IF parsed.threw THEN AuditThrow(TRUE)
    ELSE LET total == TotalVulns(parsed.value) IN
      IF total.threw THEN AuditThrow(TRUE)
      ELSE IF total.value > 0
        THEN AuditReturn(FALSE,
               "npm audit found " \o ToString(total.value) \o " vulnerabilities",
               TRUE)
        ELSE AuditReturn(TRUE, "npm audit passed", TRUE)

\* variant: no catch around the body
runOptionalAuditCheckNoCatch(enforce, res) == AuditTryBody(enforce, res)

\* lines 20-51
runOptionalAuditCheck(enforce, res) ==
  LET body == AuditTryBody(enforce, res) IN
  IF body.threw
    THEN AuditReturn(FALSE, "audit check failed", body.invoked)
    ELSE body

\* lines 53-61: the lines written to the console
niceErrorLog(err, debug) ==
  << <<"[STARTUP ERROR]", err>>,
     IF debug = "true" THEN <<"stack", err>>
                       ELSE <<"Set DEBUG=true to see stack trace.", "">> >>


\* ------------------------------------------------------------------ state
VARIABLES
  env,             \* process.env, fixed for the run
  pc,              \* where app() is: "main", the await it is suspended at, "done", "failed"
  steps,           \* bootstrap steps begun, in order
  completed,       \* bootstrap steps that succeeded, in order
  res,             \* what spawnSync returned (NoRes when npm was not run)
  auditResult,     \* what runOptionalAuditCheck returned
  server,          \* the imported server module (NoServer before the import)
  startState,      \* the promise returned by server.start()
  timer,           \* the setTimeout of line 69: "unset", "armed", "fired"
  timeoutMs,       \* the deadline passed at line 96 (0 before the call)
  race,            \* the promise returned by Promise.race, line 71
  raceLog,         \* order in which start() settled and the timer fired
  lastErr,         \* message of the error caught at line 141
  serverInstance,  \* line 63
  shuttingDown,    \* line 64
  shutdownPc,      \* where the first shutdown() is: "idle", "awaitStop", "exited"
  shutdownPromise, \* the promise returned by the first shutdown()
  stopCalls,       \* number of calls of serverInstance.stop()
  stopState,       \* the promise returned by serverInstance.stop()
  signals,         \* termination signals delivered
  noops,           \* shutdown() calls that returned at line 121
  faults,          \* fault events raised by code outside this script
  ownUnhandled,    \* unhandledRejection events raised by promises of this script
  exited,          \* process.exit was called
  exitCode,        \* with this code
  exitSite,        \* by this call: "bootstrap", "shutdown", "unhandledRejection", "uncaughtException"
  log,             \* console output, in order
  \* the login helper of the end-to-end tests, src/unnamed/part_000
  lpc,             \* where login() is: "idle", "awaitLogin", "awaitVerify", "returned", "thrown"
  largs,           \* its totpSecret argument and process.env.TOTP_SECRET
  sent,            \* the requests posted, in order
  loginRes,        \* the outcome of the login request
  genState,        \* otplib.authenticator.generate: "notcalled", "ok", "threw"
  totpRes,         \* the outcome of the verify request
  lresult          \* what login() returned or threw

bootVars == <<pc, steps, completed, res, auditResult, server, startState, timer,
              timeoutMs, race, raceLog, lastErr, serverInstance>>
shutVars == <<shuttingDown, shutdownPc, shutdownPromise, stopCalls, stopState, noops>>
procVars == <<exited, exitCode, exitSite, log>>
envVars  == <<env, signals, faults, ownUnhandled>>
loginVars == <<lpc, largs, sent, loginRes, genState, totpRes, lresult>>
vars     == <<bootVars, shutVars, procVars, envVars, loginVars>>

NoServer == [loaded |-> FALSE, hasStop |-> FALSE]
Servers  == [loaded : {TRUE}, hasStop : BOOLEAN]

NoRace   == [state |-> "none", reason |-> ""]
Pending  == [state |-> "pending", reason |-> ""]

NoAudit  == AuditReturn(FALSE, "", FALSE)

BootstrapOrder ==
  <<"audit", "loadValidator", "runValidator", "loadServer", "startServer", "record">>

InitWith(E) ==
  /\ env \in E
  /\ pc = "main"
  /\ steps = <<>>
  /\ completed = <<>>
  /\ res = NoRes
  /\ auditResult = NoAudit
  /\ server = NoServer
  /\ startState = "notcalled"
  /\ timer = "unset"
  /\ timeoutMs = 0
  /\ race = NoRace
  /\ raceLog = <<>>
  /\ lastErr = ""
  /\ serverInstance = NoServer
  /\ shuttingDown = FALSE
  /\ shutdownPc = "idle"
  /\ shutdownPromise = "none"
  /\ stopCalls = 0
  /\ stopState = "notcalled"
  /\ signals = 0
  /\ noops = 0
  /\ faults = 0
  /\ ownUnhandled = 0
  /\ exited = FALSE
  /\ exitCode = 0
  /\ exitSite = "none"
  /\ log = <<>>

\* ----------------------------------------------------------- login helper
Undefined == "undefined"

Tokens == {"t1", "t2"}
Auths  == {"a1", "a2"}
Secrets == {"S1", "S2"}

\* response.json as far as login() reads it: nothing, a value that is not
\* an object, or an object with status, data.tmpToken and authentication
NoJson ==
  [kind |-> "undefined", status |-> Undefined, data |-> "absent",
   tmpToken |-> Undefined, authentication |-> Undefined]

ScalarJson ==
  [kind |-> "scalar", status |-> Undefined, data |-> "absent",
   tmpToken |-> Undefined, authentication |-> Undefined]

ObjectJsons ==
  {j \in [kind : {"object"},
          status : {"totp_token_required", "success", Undefined},
          data : {"absent", "object"},
          tmpToken : Tokens \cup {Undefined},
          authentication : Auths \cup {Undefined}] :
     j.data = "absent" => j.tmpToken = Undefined}

Jsons == {NoJson, ScalarJson} \cup ObjectJsons

\* what awaiting frisby.post gives: a rejection, or a response
Responses ==
  {[rejected |-> TRUE, json |-> NoJson]} \cup {[rejected |-> FALSE, json |-> j] : j \in Jsons}

NoResponse ==
  [rejected |-> FALSE,
   json |-> [kind |-> "none", status |-> Undefined, data |-> "absent",
             tmpToken |-> Undefined, authentication |-> Undefined]]

LoginArgs == [totpSecret : Secrets \cup {Undefined}, envSecret : Secrets \cup {Undefined}]

NoResult == [kind |-> "none", value |-> Undefined]
Returned(v) == [kind |-> "value", value |-> v]
LoginError == [kind |-> "error", value |-> "Login failed securely"]

LoginRequest ==
  [url |-> "/rest/user/login", tmpToken |-> Undefined, totpToken |-> Undefined]

\* line 24: totpSecret || process.env.TOTP_SECRET
SecretOf(a) == IF a.totpSecret # Undefined THEN a.totpSecret ELSE a.envSecret

\* the token otplib generates for a secret
TotpFor(secret) == "totp-" \o secret

\* line 23: loginRes.json?.status === 'totp_token_required'
NeedsTotp(json) == json.kind = "object" /\ json.status = "totp_token_required"

\* reading json.authentication (lines 31, 34): a TypeError when json is
\* undefined, undefined when json is not an object
AuthenticationOf(json) ==
  IF json.kind = "undefined" THEN [threw |-> TRUE, value |-> Undefined]
  ELSE [threw |-> FALSE, value |-> json.authentication]

\* reading loginRes.json.data.tmpToken (line 27): a TypeError without data
TmpTokenOf(json) ==
  IF json.data = "absent" THEN [threw |-> TRUE, value |-> Undefined]
  ELSE [threw |-> FALSE, value |-> json.tmpToken]

\* lines 26-29
VerifyRequest(tmpToken, totpToken) ==
  [url |-> "/rest/2fa/verify", tmpToken |-> tmpToken, totpToken |-> totpToken]

\* variant: line 31 returns the authentication of the login response
VerifyReturnLogin(loginJson, totpJson) == AuthenticationOf(loginJson)

\* line 31
VerifyReturn(loginJson, totpJson) == AuthenticationOf(totpJson)

\* lines 35-37 around a read: the value, or the generic error
ReturnOrThrow(read) == IF read.threw THEN LoginError ELSE Returned(read.value)

LoginIdle(A) ==
  /\ lpc = "idle"
  /\ largs \in A
  /\ sent = <<>>
  /\ loginRes = NoResponse
  /\ genState = "notcalled"
  /\ totpRes = NoResponse
  /\ lresult = NoResult

NoLoginArgs == {[totpSecret |-> Undefined, envSecret |-> Undefined]}

appVars == <<bootVars, shutVars, procVars, envVars>>

\* line 21: login() is called and posts the login request
LoginCall ==
  /\ lpc = "idle"
  /\ lpc' = "awaitLogin"
  /\ sent' = <<LoginRequest>>
  /\ UNCHANGED <<largs, loginRes, genState, totpRes, lresult, appVars>>

\* lines 21-37: the login request settles
LoginResponds ==
  /\ lpc = "awaitLogin"
  /\ \E r \in Responses :
       /\ loginRes' = r
       /\ IF r.rejected
            THEN /\ lpc' = "thrown" /\ lresult' = LoginError
                 /\ UNCHANGED <<sent, genState>>
            ELSE IF NeedsTotp(r.json)
              THEN \E g \in {"ok", "threw"} :
                     /\ (SecretOf(largs) = Undefined) => g = "threw"
                     /\ genState' = g
                     /\ LET tmp == TmpTokenOf(r.json) IN
                        IF g = "threw" \/ tmp.threw
                          THEN /\ lpc' = "thrown" /\ lresult' = LoginError
                               /\ UNCHANGED sent
                          ELSE /\ lpc' = "awaitVerify"
                               /\ sent' = Append(sent,
                                    VerifyRequest(tmp.value, TotpFor(SecretOf(largs))))
                               /\ UNCHANGED lresult
              ELSE LET out == ReturnOrThrow(AuthenticationOf(r.json)) IN
                   /\ lresult' = out
                   /\ lpc' = IF out.kind = "error" THEN "thrown" ELSE "returned"
                   /\ UNCHANGED <<sent, genState>>
  /\ UNCHANGED <<largs, totpRes, appVars>>

\* lines 26-37: the verify request settles
VerifyResponds ==
  /\ lpc = "awaitVerify"
  /\ \E r \in Responses :
       /\ totpRes' = r
       /\ LET out == IF r.rejected THEN LoginError
                     ELSE ReturnOrThrow(VerifyReturn(loginRes.json, r.json)) IN
          /\ lresult' = out
          /\ lpc' = IF out.kind = "error" THEN "thrown" ELSE "returned"
  /\ UNCHANGED <<largs, sent, loginRes, genState, appVars>>

\* ------------------------------------------------------------------ starts
Init == InitWith(DefaultTimeoutEnvs) /\ LoginIdle(NoLoginArgs)

InitTimeout == InitWith(TimeoutEnvs) /\ LoginIdle(NoLoginArgs)

\* the login helper alone, app.ts not started
LoginInit ==
  /\ InitWith(DefaultTimeoutEnvs \cap TimeoutEnvs)
  /\ LoginIdle(LoginArgs)

LoginNext == LoginCall \/ LoginResponds \/ VerifyResponds

LoginSpec == LoginInit /\ [][LoginNext]_vars

\* ------------------------------------------------------------- bootstrap
\* lines 141-145: app() rejected with err
Abort(err) ==
  /\ pc' = "failed"
  /\ lastErr' = err
  /\ log' = log \o niceErrorLog(err, env.DEBUG)
  /\ exited' = TRUE
  /\ exitCode' = 1
  /\ exitSite' = "bootstrap"

\* variant: the audit result is not looked at
MainIgnoresAudit ==
  /\ pc = "main" /\ ~exited
  /\ \E r \in ToolResults :
       LET a == runOptionalAuditCheck(env.ENFORCE_AUDIT, r) IN
       /\ res' = IF a.invoked THEN r ELSE NoRes
       /\ auditResult' = a
       /\ steps' = <<"audit", "loadValidator">>
       /\ completed' = <<"audit">>
       /\ pc' = "awaitValidatorImport"
       /\ UNCHANGED <<lastErr, procVars>>
  /\ UNCHANGED <<server, startState, timer, timeoutMs, race, raceLog, serverInstance>>
  /\ UNCHANGED <<shutVars, envVars, loginVars>>

\* Evaluation of the module: the handlers are registered and app() runs up
\* to its first await (lines 76-83).
Main ==
  /\ pc = "main" /\ ~exited
  /\ \E r \in ToolResults :
       LET a == runOptionalAuditCheck(env.ENFORCE_AUDIT, r) IN
       /\ res' = IF a.invoked THEN r ELSE NoRes
       /\ auditResult' = a
       /\ IF ~a.ok
            THEN /\ steps' = <<"audit">>
                 /\ completed' = completed
                 /\ Abort("Startup blocked: " \o a.message)
            ELSE /\ steps' = <<"audit", "loadValidator">>
                 /\ completed' = <<"audit">>
                 /\ pc' = "awaitValidatorImport"
                 /\ UNCHANGED <<lastErr, procVars>>
  /\ UNCHANGED <<server, startState, timer, timeoutMs, race, raceLog, serverInstance>>
  /\ UNCHANGED <<shutVars, envVars, loginVars>>

\* the import of line 83 settles; on success validateDependencies() is called
ValidatorImportSettles ==
  /\ pc = "awaitValidatorImport" /\ ~exited
  /\ \E outcome \in {"loaded", "failed"}, call \in {"pending", "threw"} :
       \/ /\ outcome = "failed" /\ call = "pending"
          /\ Abort("Failed to load dependency validator")
          /\ UNCHANGED <<steps, completed>>
       \/ /\ outcome = "loaded" /\ call = "threw"
          /\ steps' = Append(steps, "runValidator")
          /\ completed' = Append(completed, "loadValidator")
          /\ Abort("validateDependencies failed")
       \/ /\ outcome = "loaded" /\ call = "pending"
          /\ steps' = Append(steps, "runValidator")
          /\ completed' = Append(completed, "loadValidator")
          /\ pc' = "awaitValidate"
          /\ UNCHANGED <<lastErr, procVars>>
  /\ UNCHANGED <<res, auditResult, server, startState, timer, timeoutMs, race, raceLog,
                 serverInstance>>
  /\ UNCHANGED <<shutVars, envVars, loginVars>>

\* variant: validateDependencies() is not awaited, its rejection is lost
ValidateSettlesSwallowed ==
  /\ pc = "awaitValidate" /\ ~exited
  /\ \E outcome \in {"fulfilled", "rejected"} :
       /\ steps' = Append(steps, "loadServer")
       /\ completed' = IF outcome = "fulfilled"
                          THEN Append(completed, "runValidator")
                          ELSE completed
       /\ pc' = "awaitServerImport"
       /\ UNCHANGED <<lastErr, procVars>>
  /\ UNCHANGED <<res, auditResult, server, startState, timer, timeoutMs, race, raceLog,
                 serverInstance>>
  /\ UNCHANGED <<shutVars, envVars, loginVars>>

\* the promise of validateDependencies() settles (line 88); on success the
\* import of line 91 begins
ValidateSettles ==
  /\ pc = "awaitValidate" /\ ~exited
  /\ \E outcome \in {"fulfilled", "rejected"} :
       IF outcome = "rejected"
         THEN /\ Abort("validateDependencies failed")
              /\ UNCHANGED <<steps, completed>>
         ELSE /\ steps' = Append(steps, "loadServer")
              /\ completed' = Append(completed, "runValidator")
              /\ pc' = "awaitServerImport"
              /\ UNCHANGED <<lastErr, procVars>>
  /\ UNCHANGED <<res, auditResult, server, startState, timer, timeoutMs, race, raceLog,
                 serverInstance>>
  /\ UNCHANGED <<shutVars, envVars, loginVars>>

TimeoutError == "Server start timed out"
StartError   == "server.start() failed"

Fulfilled == [state |-> "fulfilled", reason |-> ""]
Rejected(reason) == [state |-> "rejected", reason |-> reason]

\* variant: the last settlement wins
RaceSettleLast(r, outcome) ==
  IF r.state = "none" THEN r ELSE outcome

\* lines 66-72, first settlement wins
RaceSettle(r, outcome) ==
  IF r.state = "pending" THEN outcome ELSE r

\* the import of line 91 settles; on success startServerWithTimeout calls
\* server.start() and arms the timer (lines 67-71)
ServerImportSettles ==
  /\ pc = "awaitServerImport" /\ ~exited
  /\ \/ /\ Abort("Failed to load server module")
        /\ UNCHANGED <<steps, completed, server, startState, timer, timeoutMs, race>>
     \/ \E s \in Servers :
          /\ server' = s
          /\ steps' = Append(steps, "startServer")
          /\ completed' = Append(completed, "loadServer")
          /\ timeoutMs' = StartupTimeout(env.STARTUP_TIMEOUT_MS)
          /\ \/ /\ startState' = "threw"
                /\ Abort(StartError)
                /\ UNCHANGED <<timer, race>>
             \/ /\ startState' = "pending"
                /\ timer' = "armed"
                /\ race' = Pending
                /\ pc' = "awaitStart"
                /\ UNCHANGED <<lastErr, procVars>>
  /\ UNCHANGED <<res, auditResult, raceLog, serverInstance>>
  /\ UNCHANGED <<shutVars, envVars, loginVars>>

\* lines 96-98: app() resumes when the race settles
AppResume(old, new) ==
  IF pc = "awaitStart" /\ old.state = "pending" /\ new.state # "pending"
    THEN IF new.state = "fulfilled"
           THEN /\ serverInstance' = server
                /\ steps' = Append(steps, "record")
                /\ completed' = Append(completed, "startServer")
                /\ log' = Append(log, <<"[SERVER] started", "">>)
                /\ pc' = "done"
                /\ UNCHANGED <<lastErr, exited, exitCode, exitSite>>
           ELSE /\ Abort(new.reason)
                /\ UNCHANGED <<steps, completed, serverInstance>>
    ELSE UNCHANGED <<pc, steps, completed, serverInstance, lastErr, procVars>>

\* the promise returned by server.start() settles
StartSettles ==
  /\ startState = "pending" /\ ~exited
  /\ \E outcome \in {"fulfilled", "rejected"} :
       /\ startState' = outcome
       /\ race' = RaceSettle(race, IF outcome = "fulfilled" THEN Fulfilled
                                                          ELSE Rejected(StartError))
  /\ raceLog' = Append(raceLog, "start")
  /\ AppResume(race, race')
  /\ UNCHANGED <<res, auditResult, server, timer, timeoutMs>>
  /\ UNCHANGED <<shutVars, envVars, loginVars>>

\* -------------------------------------------------------- fault handlers
\* variant: the handler exits whatever CRASH_ON_UNHANDLED_REJECTION is
OnUnhandledRejectionAlways(logged) ==
  /\ log' = Append(logged, <<"[UNHANDLED REJECTION]", "">>)
  /\ exited' = TRUE
  /\ exitCode' = 1
  /\ exitSite' = "unhandledRejection"

\* lines 102-108, after a rejection nobody handles; logged is what was
\* already written to the console in this turn
OnUnhandledRejection(logged) ==
  /\ log' = Append(logged, <<"[UNHANDLED REJECTION]", "">>)
  /\ IF env.CRASH_ON_UNHANDLED_REJECTION = "true"
       THEN /\ exited' = TRUE
            /\ exitCode' = 1
            /\ exitSite' = "unhandledRejection"
       ELSE UNCHANGED <<exited, exitCode, exitSite>>

\* variant: line 112 tests the flag of the other handler
OnUncaughtExceptionWrongFlag(logged) ==
  /\ log' = Append(logged, <<"[UNCAUGHT EXCEPTION]", "">>)
  /\ IF env.CRASH_ON_UNHANDLED_REJECTION = "true"
       THEN /\ exited' = TRUE
            /\ exitCode' = 1
            /\ exitSite' = "uncaughtException"
       ELSE UNCHANGED <<exited, exitCode, exitSite>>

\* lines 110-117
OnUncaughtException(logged) ==
  /\ log' = Append(logged, <<"[UNCAUGHT EXCEPTION]", "">>)
  /\ IF env.CRASH_ON_UNCAUGHT_EXCEPTION = "true"
       THEN /\ exited' = TRUE
            /\ exitCode' = 1
            /\ exitSite' = "uncaughtException"
       ELSE UNCHANGED <<exited, exitCode, exitSite>>

\* variant: the timer callback resolves the promise instead of rejecting it
TimerFiresResolves ==
  /\ timer = "armed" /\ ~exited
  /\ timer' = "fired"
  /\ race' = RaceSettle(race, Fulfilled)
  /\ raceLog' = Append(raceLog, "timer")
  /\ AppResume(race, race')
  /\ UNCHANGED <<res, auditResult, server, startState, timeoutMs>>
  /\ UNCHANGED <<shutVars, envVars, loginVars>>

\* variant: a race that has settled no longer handles the promise that lost
TimeoutRejectionDropped == race.state = "pending"

\* line 71: Promise.race subscribed to timeoutPromise when it was built, so
\* the rejection of line 69 always has a handler
TimeoutRejectionHandled == race.state # "none"

\* the callback of line 69
TimerFires ==
  /\ timer = "armed" /\ ~exited
  /\ timer' = "fired"
  /\ race' = RaceSettle(race, Rejected(TimeoutError))
  /\ raceLog' = Append(raceLog, "timer")
  /\ IF TimeoutRejectionHandled
       THEN /\ AppResume(race, race')
            /\ UNCHANGED ownUnhandled
       ELSE /\ ownUnhandled' = ownUnhandled + 1
            /\ OnUnhandledRejection(log)
            /\ UNCHANGED <<pc, steps, completed, serverInstance, lastErr>>
  /\ UNCHANGED <<res, auditResult, server, startState, timeoutMs>>
  /\ UNCHANGED <<shutVars, env, signals, faults, loginVars>>


\* ---------------------------------------------------------- fault events
\* a promise of code outside this script (validator, server) is rejected
\* and nobody handles it
UnhandledRejection ==
  /\ pc # "main" /\ ~exited
  /\ faults < MaxFaults
  /\ faults' = faults + 1
  /\ OnUnhandledRejection(log)
  /\ UNCHANGED <<bootVars, shutVars, env, signals, ownUnhandled, loginVars>>

\* a callback of code outside this script throws
UncaughtException ==
  /\ pc # "main" /\ ~exited
  /\ faults < MaxFaults
  /\ faults' = faults + 1
  /\ OnUncaughtException(log)
  /\ UNCHANGED <<bootVars, shutVars, env, signals, ownUnhandled, loginVars>>

\* --------------------------------------------------------------- shutdown
\* variant: process.exit(0) at the end of the try block, no finally
ShutdownAfterStopNoFinally(outcome) ==
  IF outcome = "fulfilled"
    THEN [logs |-> << <<"[SHUTDOWN] server.stop() completed", "">> >>,
          exits |-> TRUE, promise |-> "pending"]
    ELSE [logs |-> << <<"[SHUTDOWN ERROR]", "">> >>,
          exits |-> FALSE, promise |-> "fulfilled"]

\* variant: no try around the await, process.exit(0) after it
ShutdownAfterStopNoCatch(outcome) ==
  IF outcome = "fulfilled"
    THEN [logs |-> << <<"[SHUTDOWN] server.stop() completed", "">> >>,
          exits |-> TRUE, promise |-> "pending"]
    ELSE [logs |-> <<>>, exits |-> FALSE, promise |-> "rejected"]

\* lines 124-133 once stop() has settled or thrown: what is logged, whether
\* process.exit(0) is reached, and the state of the promise of shutdown()
\* (process.exit does not return, so the promise stays pending)
ShutdownAfterStop(outcome) ==
  IF outcome = "fulfilled"
    THEN [logs |-> << <<"[SHUTDOWN] server.stop() completed", "">> >>,
          exits |-> TRUE, promise |-> "pending"]
    ELSE [logs |-> << <<"[SHUTDOWN ERROR]", "">> >>,
          exits |-> TRUE, promise |-> "pending"]

\* the effect of that on the process; a rejected shutdown() promise has no
\* handler (lines 136-137 drop it) and raises unhandledRejection
ShutdownFinish(logged, r) ==
  /\ shutdownPromise' = r.promise
  /\ IF r.exits
       THEN /\ shutdownPc' = "exited"
            /\ log' = logged \o r.logs
            /\ exited' = TRUE
            /\ exitCode' = 0
            /\ exitSite' = "shutdown"
            /\ UNCHANGED ownUnhandled
       ELSE /\ shutdownPc' = "returned"
            /\ IF r.promise = "rejected"
                 THEN /\ ownUnhandled' = ownUnhandled + 1
                      /\ OnUnhandledRejection(logged \o r.logs)
                 ELSE /\ log' = logged \o r.logs
                      /\ UNCHANGED <<ownUnhandled, exited, exitCode, exitSite>>

\* variant: line 125 looks at the imported module, not at the recorded handle
HasLiveServerLoaded == server # NoServer /\ server.hasStop

\* line 125
HasLiveServer == serverInstance # NoServer /\ serverInstance.hasStop

\* variant: no guard at line 121
shutdownNoGuard(signal) ==
  /\ shuttingDown' = TRUE
  /\ UNCHANGED noops
  /\ LET logged == Append(log, <<"[SHUTDOWN] Received", signal>>) IN
     IF HasLiveServer
       THEN /\ stopCalls' = stopCalls + 1
            /\ \/ /\ stopState' = "pending"
                  /\ shutdownPc' = "awaitStop"
                  /\ shutdownPromise' = "pending"
                  /\ log' = logged
                  /\ UNCHANGED <<exited, exitCode, exitSite, ownUnhandled>>
               \/ /\ stopState' = "threw"
                  /\ ShutdownFinish(logged, ShutdownAfterStop("threw"))
       ELSE /\ UNCHANGED <<stopCalls, stopState>>
            /\ ShutdownFinish(logged,
                 [logs |-> <<>>, exits |-> TRUE, promise |-> "pending"])

\* lines 120-134 up to the await of line 126, or to the end when there is
\* nothing to await
shutdown(signal) ==
  IF shuttingDown
    THEN /\ noops' = noops + 1
         /\ UNCHANGED <<shuttingDown, shutdownPc, shutdownPromise, stopCalls,
                        stopState, procVars, ownUnhandled>>
    ELSE /\ shuttingDown' = TRUE
         /\ UNCHANGED noops
         /\ LET logged == Append(log, <<"[SHUTDOWN] Received", signal>>) IN
            IF HasLiveServer
              THEN /\ stopCalls' = stopCalls + 1
                   /\ \/ /\ stopState' = "pending"
                         /\ shutdownPc' = "awaitStop"
                         /\ shutdownPromise' = "pending"
                         /\ log' = logged
                         /\ UNCHANGED <<exited, exitCode, exitSite, ownUnhandled>>
                      \/ /\ stopState' = "threw"
                         /\ ShutdownFinish(logged, ShutdownAfterStop("threw"))
              ELSE /\ UNCHANGED <<stopCalls, stopState>>
                   /\ ShutdownFinish(logged,
                        [logs |-> <<>>, exits |-> TRUE, promise |-> "pending"])

\* lines 136-137: SIGINT or SIGTERM is delivered
Signal ==
  /\ pc # "main" /\ ~exited
  /\ signals < MaxSignals
  /\ signals' = signals + 1
  /\ \E sig \in Signals : shutdown(sig)
  /\ UNCHANGED <<bootVars, env, faults, loginVars>>

\* variant: the reference is cleared once stop() has settled
StopSettlesClears ==
  /\ shutdownPc = "awaitStop" /\ stopState = "pending" /\ ~exited
  /\ \E outcome \in {"fulfilled", "rejected"} :
       /\ stopState' = outcome
       /\ ShutdownFinish(log, ShutdownAfterStop(outcome))
  /\ serverInstance' = NoServer
  /\ UNCHANGED <<pc, steps, completed, res, auditResult, server, startState,
                 timer, timeoutMs, race, raceLog, lastErr>>
  /\ UNCHANGED <<shuttingDown, stopCalls, noops, env, signals, faults, loginVars>>

\* variant: the flag is reset once stop() has settled
StopSettlesResets ==
  /\ shutdownPc = "awaitStop" /\ stopState = "pending" /\ ~exited
  /\ \E outcome \in {"fulfilled", "rejected"} :
       /\ stopState' = outcome
       /\ ShutdownFinish(log, ShutdownAfterStop(outcome))
  /\ shuttingDown' = FALSE
  /\ UNCHANGED <<bootVars, stopCalls, noops, env, signals, faults, loginVars>>

\* the promise returned by serverInstance.stop() settles (line 126)
StopSettles ==
  /\ shutdownPc = "awaitStop" /\ stopState = "pending" /\ ~exited
  /\ \E outcome \in {"fulfilled", "rejected"} :
       /\ stopState' = outcome
       /\ ShutdownFinish(log, ShutdownAfterStop(outcome))
  /\ UNCHANGED <<bootVars, shuttingDown, stopCalls, noops, env, signals, faults, loginVars>>

\* ---------------------------------------------------------- specification
Next ==
  \/ Main
  \/ ValidatorImportSettles
  \/ ValidateSettles
  \/ ServerImportSettles
  \/ StartSettles
  \/ TimerFires
  \/ Signal
  \/ StopSettles
  \/ UnhandledRejection
  \/ UncaughtException

Spec == Init /\ [][Next]_vars

\* the same program, started with each text of STARTUP_TIMEOUT_MS
TimeoutSpec == InitTimeout /\ [][Next]_vars

TypeOK ==
  /\ env \in Envs
  /\ pc \in {"main", "awaitValidatorImport", "awaitValidate", "awaitServerImport",
             "awaitStart", "done", "failed"}
  /\ res \in ToolResults \cup {NoRes}
  /\ server \in Servers \cup {NoServer}
  /\ serverInstance \in Servers \cup {NoServer}
  /\ startState \in {"notcalled", "pending", "fulfilled", "rejected", "threw"}
  /\ timer \in {"unset", "armed", "fired"}
  /\ race.state \in {"none", "pending", "fulfilled", "rejected"}
  /\ shuttingDown \in BOOLEAN
  /\ shutdownPc \in {"idle", "awaitStop", "exited", "returned"}
  /\ stopState \in {"notcalled", "pending", "fulfilled", "rejected", "threw"}
  /\ exited \in BOOLEAN
  /\ exitCode \in {0, 1}
  /\ signals \in 0..MaxSignals /\ faults \in 0..MaxFaults
  /\ timeoutMs \in Int
  /\ lpc \in {"idle", "awaitLogin", "awaitVerify", "returned", "thrown"}
  /\ largs \in LoginArgs
  /\ loginRes \in Responses \cup {NoResponse}
  /\ totpRes \in Responses \cup {NoResponse}
  /\ genState \in {"notcalled", "ok", "threw"}
  /\ Len(sent) <= 2


\* ------------------------------------------------------------- properties
IsPrefix(s, t) == Len(s) <= Len(t) /\ \A i \in 1..Len(s) : s[i] = t[i]

Logged(tag) == \E i \in 1..Len(log) : log[i][1] = tag

Started == Logged("[SERVER] started")

\* C1: bootstrap runs its steps only in the order audit, validator load,
\* validator execution, server load, server start, record; the first failing
\* step is the last step begun, nothing is begun twice, the validator is not
\* run after a failed audit, server.start() is not called unless audit,
\* validator load, validation and server load all succeeded, and a failed
\* step makes the process exit with code 1.
C1_FailFast ==
  /\ IsPrefix(steps, BootstrapOrder)
  /\ IsPrefix(completed, steps)
  /\ Len(steps) <= Len(completed) + 1
  /\ pc = "failed" =>
       /\ Len(steps) = Len(completed) + 1
       /\ exited /\ exitCode = 1 /\ exitSite = "bootstrap"
  /\ (pc # "main" /\ ~auditResult.ok) => (steps = <<"audit">> /\ pc = "failed")
  /\ startState # "notcalled" =>
       /\ auditResult.ok
       /\ IsPrefix(<<"audit", "loadValidator", "runValidator", "loadServer">>, completed)

\* the validator failed: nothing after it was begun and the exit code is 1
C1_Witness ==
  /\ pc = "failed"
  /\ steps = <<"audit", "loadValidator", "runValidator">>
  /\ completed = <<"audit", "loadValidator">>
  /\ exited /\ exitCode = 1

\* C2: whatever signals arrive, stop() of a live handle is called exactly
\* once (never twice, and once as soon as shutdown has begun), and a
\* shutdown call made while shuttingDown is true changes nothing.
C2_StopOnce ==
  /\ [](/\ stopCalls <= 1
        /\ (shuttingDown /\ HasLiveServer) => stopCalls = 1)
  /\ [][(shuttingDown /\ signals' = signals + 1) =>
          /\ noops' = noops + 1
          /\ UNCHANGED <<bootVars, shuttingDown, shutdownPc, shutdownPromise,
                         stopCalls, stopState, procVars, ownUnhandled>>]_vars

\* a second signal arrived while the first shutdown was awaiting stop()
C2_Witness ==
  /\ stopCalls = 1 /\ noops >= 1 /\ signals >= 2
  /\ stopState = "pending" /\ shutdownPc = "awaitStop"

\* the outcome of startServerWithTimeout: the race, or a rejection when
\* server.start() threw before the race was built
StartWithTimeoutResult ==
  IF startState = "threw" THEN "rejected" ELSE race.state

StartSettledFirst == raceLog # <<>> /\ raceLog[1] = "start"
TimerFiredFirst   == raceLog # <<>> /\ raceLog[1] = "timer"

\* C3 as stated: startServerWithTimeout resolves successfully iff start()
\* settles before the deadline timer fires.
C3_AsStated ==
  StartWithTimeoutResult \in {"fulfilled", "rejected"} =>
    (StartWithTimeoutResult = "fulfilled" <=> StartSettledFirst)

\* C3 amended: startServerWithTimeout resolves successfully iff start()
\* fulfils before the deadline timer fires.
C3_FulfilsFirst ==
  StartWithTimeoutResult = "fulfilled" <=>
    (StartSettledFirst /\ startState = "fulfilled")

\* start() fulfilled first and the timer fired later
C3_Witness ==
  /\ raceLog = <<"start", "timer">>
  /\ startState = "fulfilled"
  /\ StartWithTimeoutResult = "fulfilled"

\* C4: when the timer fires before start() settles the race is rejected with
\* the timeout error, bootstrap aborts with exit code 1 on that error, the
\* handle is never recorded, and a settled race never changes again.
C4_TimeoutWins ==
  /\ [](TimerFiredFirst =>
          /\ race = Rejected(TimeoutError)
          /\ pc = "failed" /\ lastErr = TimeoutError
          /\ exited /\ exitCode = 1 /\ exitSite = "bootstrap"
          /\ serverInstance = NoServer /\ ~Started)
  /\ [][race.state \in {"fulfilled", "rejected"} => race' = race]_vars

\* the timer fired while start() was still pending
C4_Witness ==
  /\ raceLog = <<"timer">> /\ startState = "pending"
  /\ race.state = "rejected" /\ exited

\* C5: the handle is recorded and '[SERVER] started' is logged only if the
\* audit was ok, the validator loaded and succeeded, the server module
\* loaded and start() fulfilled before the timer fired.
C5_StartedOnlyIf ==
  (serverInstance # NoServer \/ Started) =>
    /\ serverInstance = server /\ server # NoServer /\ Started
    /\ auditResult.ok
    /\ completed = <<"audit", "loadValidator", "runValidator", "loadServer",
                     "startServer">>
    /\ startState = "fulfilled" /\ StartSettledFirst

\* bootstrap succeeded
C5_Witness == pc = "done" /\ serverInstance # NoServer /\ Started /\ ~exited


CrashExit ==
  \/ /\ exitSite = "unhandledRejection"
     /\ env.CRASH_ON_UNHANDLED_REJECTION = "true"
  \/ /\ exitSite = "uncaughtException"
     /\ env.CRASH_ON_UNCAUGHT_EXCEPTION = "true"

\* C6 as stated: once the first termination signal has been handled the
\* process terminates, and with exit code 0.
C6_AsStated == (shuttingDown /\ exited) => exitCode = 0

\* C6 amended: once the first termination signal has been handled the
\* process is alive only while the awaited stop() is pending; it exits with
\* code 0 through shutdown when stop() settles or throws or there is no
\* handle with a stop function, unless a fault handler whose CRASH_ON_* flag
\* is 'true' exits with code 1 while stop() is pending.
C6_ExitAfterSignal ==
  shuttingDown =>
    /\ ~exited => (stopState = "pending" /\ shutdownPc = "awaitStop")
    /\ exited =>
         \/ exitSite = "shutdown" /\ exitCode = 0
         \/ CrashExit /\ exitCode = 1 /\ stopState = "pending"

\* stop() fulfilled and shutdown exited with code 0
C6_Witness ==
  /\ shuttingDown /\ stopState = "fulfilled"
  /\ exited /\ exitCode = 0 /\ exitSite = "shutdown"
  /\ Logged("[SHUTDOWN] server.stop() completed")

\* C7: when stop() rejects (or throws) the error is logged, the promise of
\* shutdown() is not rejected, no unhandledRejection event is raised by this
\* script, and the process exits with code 0.
C7_StopErrorSwallowed ==
  stopState \in {"rejected", "threw"} =>
    /\ log[Len(log)][1] = "[SHUTDOWN ERROR]"
    /\ shutdownPromise # "rejected"
    /\ ownUnhandled = 0
    /\ exited /\ exitCode = 0 /\ exitSite = "shutdown"

\* stop() rejected while shutdown was awaiting it
C7_Witness ==
  /\ stopState = "rejected" /\ stopCalls = 1
  /\ exited /\ exitCode = 0
  /\ Logged("[SHUTDOWN ERROR]")

\* C8 as stated: after '[SERVER] started' the process exits only on a
\* termination signal, and then with exit code 0.
C8_AsStated ==
  (Started /\ exited) =>
    (shuttingDown /\ exitSite = "shutdown" /\ exitCode = 0)

\* C8 amended: after '[SERVER] started' the process exits only through
\* shutdown after a termination signal, with code 0, or through a fault
\* handler whose CRASH_ON_* flag is 'true', with code 1; the late deadline
\* timer and fault events whose flag is not 'true' do not make it exit.
C8_ExitAfterStart ==
  /\ [](Started /\ exited =>
          \/ shuttingDown /\ exitSite = "shutdown" /\ exitCode = 0
          \/ CrashExit /\ exitCode = 1)
  /\ [][(Started /\ ~exited /\ exited') =>
          \/ signals' = signals + 1
          \/ stopState = "pending" /\ stopState' # "pending"
          \/ faults' = faults + 1 /\ CrashExit']_vars

\* the server started, the timer fired late, a fault event whose flag is not
\* 'true' was logged, and the process is still running
C8_Witness ==
  /\ Started /\ ~exited /\ ~shuttingDown
  /\ timer = "fired" /\ faults >= 1

\* what the text of the audit output declares: the sum of the counts under
\* metadata.vulnerabilities, 0 when there is no such object
DeclaredCount(r) ==
  IF r.stdout.kind = "json" /\ r.stdout.doc.vulns = "object"
    THEN SumOver(r.stdout.doc.counts, DOMAIN r.stdout.doc.counts)
    ELSE 0

AuditRan == pc # "main" /\ env.ENFORCE_AUDIT = "true"

\* C9 as stated: with ENFORCE_AUDIT='true' the result is ok:false exactly
\* when npm failed to execute, its output is not JSON, or the summed count
\* is > 0, and nothing is thrown.
C9_AsStated ==
  AuditRan =>
    /\ ~auditResult.threw
    /\ (auditResult.ok <=>
         ~(\/ res.error
           \/ res.stdout.kind = "garbage"
           \/ DeclaredCount(res) > 0))

\* C9 amended: with ENFORCE_AUDIT='true' the result is ok:false exactly when
\* npm failed to execute, or its non-empty output is not JSON, or is the
\* JSON value null, or the summed count is > 0; it is ok:true otherwise
\* (empty output included), and nothing is thrown.
C9_AuditVerdict ==
  AuditRan =>
    /\ ~auditResult.threw
    /\ auditResult.invoked
    /\ (auditResult.ok <=>
         ~(\/ res.error
           \/ res.stdout.kind = "garbage"
           \/ res.stdout.kind = "json" /\ res.stdout.doc.top = "null"
           \/ DeclaredCount(res) > 0))

\* the output was not JSON: reported, not thrown
C9_Witness ==
  /\ AuditRan /\ ~res.error /\ res.stdout.kind = "garbage"
  /\ auditResult = AuditReturn(FALSE, "audit check failed", TRUE)
  /\ exited /\ exitCode = 1

\* C10: an audit output whose counts sum to n > 0 gives ok:false with the
\* message 'npm audit found n vulnerabilities', and bootstrap aborts with
\* exit code 1 on 'Startup blocked: npm audit found n vulnerabilities'.
C10_CountReported ==
  (AuditRan /\ ~res.error /\ DeclaredCount(res) > 0) =>
    LET msg == "npm audit found " \o ToString(DeclaredCount(res))
                 \o " vulnerabilities" IN
    /\ auditResult = AuditReturn(FALSE, msg, TRUE)
    /\ pc = "failed" /\ steps = <<"audit">>
    /\ lastErr = "Startup blocked: " \o msg
    /\ log[1] = <<"[STARTUP ERROR]", lastErr>>
    /\ exited /\ exitCode = 1 /\ exitSite = "bootstrap"

\* the scenario {metadata:{vulnerabilities:{high:2}}}
C10_Witness ==
  /\ AuditRan /\ ~res.error
  /\ res.stdout.kind = "json" /\ res.stdout.doc.vulns = "object"
  /\ res.stdout.doc.counts = [s \in {"high"} |-> 2]
  /\ lastErr = "Startup blocked: npm audit found 2 vulnerabilities"
  /\ exited /\ exitCode = 1

\* C11: when ENFORCE_AUDIT is unset or 'false' the audit check returns
\* ok:true and npm is never run, so bootstrap goes on to the validator.
C11_AuditSkipped ==
  (pc # "main" /\ env.ENFORCE_AUDIT \in {Unset, "false"}) =>
    /\ auditResult = AuditReturn(TRUE, "audit skipped", FALSE)
    /\ res = NoRes
    /\ Len(steps) >= 2 /\ steps[2] = "loadValidator"

\* ENFORCE_AUDIT='false': the check was skipped and the validator is loading
C11_Witness ==
  /\ env.ENFORCE_AUDIT = "false"
  /\ pc = "awaitValidatorImport"
  /\ auditResult.ok /\ ~auditResult.invoked /\ res = NoRes

\* C12: an unhandledRejection event makes the process exit, with code 1,
\* iff CRASH_ON_UNHANDLED_REJECTION is 'true', and an uncaughtException event
\* iff CRASH_ON_UNCAUGHT_EXCEPTION is 'true'; the event is logged in either
\* case, and when the process does not exit nothing of the bootstrap and
\* shutdown state (serverInstance and shuttingDown included) changes.
C12_CrashFlags ==
  [][faults' = faults + 1 =>
       LET tag == log'[Len(log')][1] IN
       /\ Len(log') = Len(log) + 1
       /\ tag \in {"[UNHANDLED REJECTION]", "[UNCAUGHT EXCEPTION]"}
       /\ tag = "[UNHANDLED REJECTION]" =>
            (exited' <=> env.CRASH_ON_UNHANDLED_REJECTION = "true")
       /\ tag = "[UNCAUGHT EXCEPTION]" =>
            (exited' <=> env.CRASH_ON_UNCAUGHT_EXCEPTION = "true")
       /\ exited' => exitCode' = 1
       /\ UNCHANGED <<serverInstance, shuttingDown>>
       /\ ~exited' => UNCHANGED <<bootVars, shutVars, exitCode, exitSite>>]_vars

\* an uncaught exception was only logged while the other flag is 'true'
C12_Witness ==
  /\ env.CRASH_ON_UNCAUGHT_EXCEPTION = "false"
  /\ env.CRASH_ON_UNHANDLED_REJECTION = "true"
  /\ Logged("[UNCAUGHT EXCEPTION]") /\ faults >= 1
  /\ ~exited

\* C13: shuttingDown is false until the first termination signal is handled
\* and true in every state after that; it is never reset, and it changes
\* only in a turn in which shutdown handles a signal.
C13_FlagMonotone ==
  /\ [](shuttingDown <=> signals >= 1)
  /\ [][shuttingDown => shuttingDown']_vars
  /\ [][shuttingDown' # shuttingDown =>
          (signals = 0 /\ signals' = 1 /\ shuttingDown')]_vars

\* the flag is still set after stop() settled and the process exited
C13_Witness ==
  /\ shuttingDown /\ signals >= 2
  /\ stopState = "fulfilled" /\ exited

\* C14 as stated: serverInstance is assigned a handle at most once, and the
\* reference is cleared before the process exits through shutdown.
C14_AsStated ==
  /\ [][serverInstance # NoServer =>
          serverInstance' \in {serverInstance, NoServer}]_vars
  /\ []((exited /\ exitSite = "shutdown") => serverInstance = NoServer)

\* C14 amended: serverInstance is assigned at most once, when bootstrap
\* succeeds, and is never cleared: once shutdown has called stop() the
\* reference still holds the handle, also when the process has exited.
C14_HandleKept ==
  /\ [][serverInstance' # serverInstance =>
          /\ serverInstance = NoServer
          /\ serverInstance' = server /\ server # NoServer
          /\ pc = "awaitStart" /\ pc' = "done"]_vars
  /\ [](stopCalls >= 1 => (serverInstance = server /\ server # NoServer))

\* shutdown stopped the server and exited, the reference is still set
C14_Witness ==
  /\ exited /\ exitSite = "shutdown" /\ exitCode = 0
  /\ stopCalls = 1 /\ stopState = "fulfilled"
  /\ serverInstance # NoServer

\* a text that writes an integer: an optional minus sign and decimal digits
IsIntegerText(chars) ==
  LET ds == IF chars # <<>> /\ chars[1] = "-" THEN Tail(chars) ELSE chars IN
  ds # <<>> /\ AllDigits(ds)

\* the integer it writes
IntegerValue(chars) ==
  IF chars[1] = "-" THEN 0 - DigitsValue(Tail(chars)) ELSE DigitsValue(chars)

\* C15: the deadline passed to startServerWithTimeout is the numeric value
\* of STARTUP_TIMEOUT_MS whenever that is set to an integer, and 30000 when
\* it is unset.
C15_DeadlineFromEnv ==
  startState # "notcalled" =>
    LET v == env.STARTUP_TIMEOUT_MS IN
    /\ ~v.set => timeoutMs = 30000
    /\ (v.set /\ IsIntegerText(v.chars)) => timeoutMs = IntegerValue(v.chars)

\* C16: a termination signal handled before the handle is recorded, at any
\* await of bootstrap (the pending start() included), makes the process exit
\* with code 0 in that turn without calling stop(); stop() is called only by
\* a shutdown that runs after the handle was recorded.
C16_SignalDuringBootstrap ==
  /\ [][(signals' = signals + 1 /\ ~shuttingDown /\ serverInstance = NoServer) =>
          /\ exited' /\ exitCode' = 0 /\ exitSite' = "shutdown"
          /\ stopCalls' = 0 /\ stopState' = "notcalled"
          /\ UNCHANGED bootVars]_vars
  /\ [](stopCalls >= 1 =>
          (serverInstance # NoServer /\ pc = "done" /\ shuttingDown))

\* the signal arrived while start() of a module exposing stop() was pending
C16_Witness ==
  /\ pc = "awaitStart" /\ startState = "pending" /\ server.hasStop
  /\ shuttingDown /\ exited /\ exitCode = 0 /\ exitSite = "shutdown"
  /\ stopCalls = 0

\* C17: when start() fulfils first the timer stays armed, and the turn in
\* which it later fires changes nothing but the timer itself: no exit, no
\* unhandledRejection event, nothing logged, the outcome of the race,
\* serverInstance and shuttingDown as they were.
C17_LateTimerHarmless ==
  /\ []((startState = "fulfilled" /\ StartSettledFirst) =>
          timer = IF Len(raceLog) = 1 THEN "armed" ELSE "fired")
  /\ [][(timer = "armed" /\ timer' = "fired" /\ race.state = "fulfilled") =>
          UNCHANGED <<pc, race, serverInstance, shuttingDown, ownUnhandled,
                      exited, exitCode, exitSite, log, shutVars>>]_vars

\* the timer fired after the server had started; the process runs on
C17_Witness ==
  /\ pc = "done" /\ Started /\ timer = "fired"
  /\ race = Fulfilled /\ ownUnhandled = 0
  /\ ~exited /\ ~shuttingDown /\ faults = 0

\* the login response has been handled
LoginHandled == lpc \notin {"idle", "awaitLogin"}

LoginFinished == lpc \in {"returned", "thrown"}

\* the login response arrived and says that a TOTP token is required
TotpRequired ==
  /\ ~loginRes.rejected
  /\ loginRes.json.kind = "object"
  /\ loginRes.json.status = "totp_token_required"

\* a request was rejected, or a response could not be read
RequestOrReadFailed ==
  \/ loginRes.rejected
  \/ TotpRequired /\ loginRes.json.data = "absent"
  \/ ~TotpRequired /\ loginRes.json.kind = "undefined"
  \/ Len(sent) = 2 /\ (totpRes.rejected \/ totpRes.json.kind = "undefined")

\* C18 as stated: unless a request or the reading of a response fails, the
\* verify request is sent iff the login response has status
\* 'totp_token_required'; it carries the tmpToken of that response; the
\* result is the authentication of the verify response, or of the login
\* response when no verify request is sent; a failure of a request or of
\* reading a response gives the error 'Login failed securely'.
C18_AsStated ==
  LoginHandled =>
    /\ ~RequestOrReadFailed => (Len(sent) = 2 <=> TotpRequired)
    /\ Len(sent) = 2 => sent[2].tmpToken = loginRes.json.tmpToken
    /\ lresult.kind = "value" =>
         lresult.value = IF Len(sent) = 2 THEN totpRes.json.authentication
                                         ELSE loginRes.json.authentication
    /\ (LoginFinished /\ RequestOrReadFailed) => lresult = LoginError

\* C18 amended: the verify request is sent iff the login response has
\* status 'totp_token_required' and generating the TOTP token and reading
\* data.tmpToken both succeed; it carries that tmpToken and the generated
\* token; the result is the authentication of the verify response, or of
\* the login response when the status is another one; a failure of either
\* request, of generating the token or of reading a response gives the
\* error 'Login failed securely', and nothing else does.
C18_LoginFlow ==
  /\ ~LoginHandled => (lresult = NoResult /\ Len(sent) <= 1)
  /\ LoginHandled =>
       /\ sent[1] = LoginRequest
       /\ Len(sent) = 2 <=>
            (TotpRequired /\ genState = "ok" /\ loginRes.json.data = "object")
       /\ Len(sent) = 2 =>
            sent[2] = [url |-> "/rest/2fa/verify",
                       tmpToken |-> loginRes.json.tmpToken,
                       totpToken |-> TotpFor(SecretOf(largs))]
       /\ ~TotpRequired => genState = "notcalled"
       /\ ~LoginFinished => (lpc = "awaitVerify" /\ lresult = NoResult /\ Len(sent) = 2)
       /\ LoginFinished =>
            lresult = IF RequestOrReadFailed \/ genState = "threw"
                        THEN LoginError
                        ELSE Returned(IF TotpRequired
                                        THEN totpRes.json.authentication
                                        ELSE loginRes.json.authentication)

\* two requests were sent and login() returned the authentication of the
\* verify response, which differs from that of the login response
C18_Witness ==
  /\ lpc = "returned" /\ Len(sent) = 2
  /\ sent[2].tmpToken = "t2" /\ loginRes.json.tmpToken = "t2"
  /\ lresult = Returned("a1")
  /\ totpRes.json.authentication = "a1" /\ loginRes.json.authentication = "a2"

====
